---- MODULE Spec2Model ----
(***************************************************************************)
(* Model of function/z_corellation_function/value.py: the Z-factor         *)
(* pipeline calc_z -> _calc_z_explicit_implicit_helper, with the range     *)
(* validator _check_working_Pr_Tr_range and the guess ladder               *)
(* _construct_guess_list_order.                                            *)
(*                                                                         *)
(* Units.  Pr and Tr are held in tenths (Pr = 1.5 is 15, the bound 20.5 is *)
(* 205); Z values and guesses are held in hundredths (0.1 is 10, the       *)
(* default guesses 0.9 and 2 are 90 and 200).  None is the integer -1,     *)
(* which is no legal reduced property, guess or Z.                         *)
(***************************************************************************)
EXTENDS Integers, Sequences, FiniteSets, TLC

VARIABLES
    pc,             \* position of the call in calc_z / the helper
    args,           \* the keyword arguments calc_z was called with
    z_model,        \* calc_z local: the correlation returned by _get_z_model
    Pr, Tr,         \* calc_z locals Pr, Tr (rebound by the pseudo-critical model)
    pc_instance,    \* calc_z local: the pseudo-critical model instance ("None" before)
    bag,            \* pc_instance.ps_props
    h_guess,        \* helper local guess (after defaulting)
    h_smart,        \* helper local smart_guess (after defaulting)
    head,           \* guesses: the part in front of _construct_guess_list_order's list
    tail,           \* guesses: elements of list(set(reordered)) not yet iterated
    nGuesses,       \* len(guesses)
    idx,            \* number of loop iterations started (newton calls made)
    worked,         \* helper local worked
    Z,              \* helper local Z / calc_z local Z
    ret,            \* what the call gave back to its caller
    newtonRet,      \* history: what the last optimize.newton call returned (None: raised)
    trace,          \* history: counts of the external computations made so far
    orch,           \* history: the (Pr, Tr) the helper was called with
    reduced,        \* history: the (Tr, Pr) the reduction routine returned
    accepted,       \* history: the candidate whose newton call did not raise
    rv              \* range-validator harness: its inputs and output

callVars == <<pc, args, z_model, Pr, Tr, pc_instance, bag, h_guess, h_smart, head, tail,
              nGuesses, idx, worked, Z, ret, newtonRet, trace, orch, reduced, accepted>>
vars == <<pc, args, z_model, Pr, Tr, pc_instance, bag, h_guess, h_smart, head, tail,
          nGuesses, idx, worked, Z, ret, newtonRet, trace, orch, reduced, accepted, rv>>

None == -1

----------------------------------------------------------------------------
(* Module-level tables *)

\* models = {...}: the registry's keys
models == {"DAK", "hall_yarborough", "londono", "kareem"}

\* MODEL_RANGES, in tenths
MODEL_RANGES ==
    [m \in models |->
        CASE m = "DAK"             -> [Tr |-> <<10, 30>>, Pr |-> <<2, 300>>]
          [] m = "hall_yarborough" -> [Tr |-> <<10, 30>>, Pr |-> <<2, 205>>]
          [] m = "londono"         -> [Tr |-> <<10, 30>>, Pr |-> <<2, 300>>]
          [] m = "kareem"          -> [Tr |-> <<10, 30>>, Pr |-> <<2, 150>>]]

\* the explicit models: the literal list ['kareem'] of lines 88 and 260
ExplicitModels == {"kareem"}

\* smart_guess_model = 'kareem'
smart_guess_model == "kareem"

----------------------------------------------------------------------------
(* _check_working_Pr_Tr_range.  numpy compares elementwise and .all()       *)
(* reduces with AND, a scalar being its own single element: an argument is *)
(* given here as the sequence of its elements (a scalar x as <<x>>).       *)

\* Faulty variant: the bounds taken as exclusive
AllWithinExclusive(x, lo, hi) == \A i \in DOMAIN x : x[i] > lo /\ x[i] < hi

\* np.logical_and(x >= lo, x <= hi).all()
AllWithin(x, lo, hi) == \A i \in DOMAIN x : x[i] >= lo /\ x[i] <= hi

_check_working_Pr_Tr_range(p, t, zmodel_str) ==
    LET Pr_is_in_range == AllWithin(p, MODEL_RANGES[zmodel_str].Pr[1], MODEL_RANGES[zmodel_str].Pr[2])
        Tr_is_in_range == AllWithin(t, MODEL_RANGES[zmodel_str].Tr[1], MODEL_RANGES[zmodel_str].Tr[2])
    IN  Pr_is_in_range /\ Tr_is_in_range

----------------------------------------------------------------------------
(* _construct_guess_list_order *)

\* t = [0.1, 0.2, ..., 1.0], in hundredths
Ladder == [i \in 1..10 |-> 10 * i]

Abs(x) == IF x < 0 THEN -x ELSE x

Range(s) == {s[i] : i \in DOMAIN s}

\* min(t, key=lambda x: abs(x - guess)): the first element of t at minimal distance
MinByDistance(t, g) ==
    LET best == CHOOSE i \in DOMAIN t :
                    /\ \A j \in DOMAIN t : Abs(t[i] - g) <= Abs(t[j] - g)
                    /\ \A j \in 1..(i - 1) : Abs(t[j] - g) > Abs(t[i] - g)
    IN  t[best]

\* t.pop(t.index(match))
PopFirst(t, match) ==
    LET k == CHOOSE i \in DOMAIN t : t[i] = match /\ \A j \in 1..(i - 1) : t[j] # match
    IN  [i \in 1..(Len(t) - 1) |-> IF i < k THEN t[i] ELSE t[i + 1]]

\* the while loop of lines 74-78, from the state (t, reordered)
RECURSIVE ReorderLoop(_, _, _)
ReorderLoop(t, reordered, g) ==
    IF Len(t) > 0
    THEN LET match == MinByDistance(t, g)
         IN  ReorderLoop(PopFirst(t, match), Append(reordered, match), g)
    ELSE reordered

\* reordered as it stands at line 79, before set() is applied
Reordered(g) == ReorderLoop(Ladder, <<g>>, g)

\* list(set(reordered)): the list holds every distinct element of reordered once,
\* in the iteration order of a set, which the language leaves to the build (hash
\* order under CPython, insertion order under PyPy).  The model keeps the elements
\* as a set and lets the loop that iterates the list take them in any order.
_construct_guess_list_order(g) == Range(Reordered(g))


----------------------------------------------------------------------------
(* Inputs of a call.  sg, P, T, H2S, CO2, ignore_conflict and **kwargs are *)
(* only handed through to the pseudo-critical model and are not held.      *)

ZModelInputs == models \cup {"nonexistent"}
PModelInputs == {"piper", "sutton", "nonexistent"}
GuessInputs == {None, 10}
NewtonKwargsInputs == {"None", "dict"}
SmartGuessInputs == {"None", "True", "False"}
PrInputs == {None, 15, 150, 200}
TrInputs == {None, 15, 31}
N2Inputs == {None, 5}

AllArguments ==
    [zmodel : ZModelInputs, pmodel : PModelInputs, guess : GuessInputs,
     newton_kwargs : NewtonKwargsInputs, smart_guess : SmartGuessInputs,
     Pr : PrInputs, Tr : TrInputs, N2 : N2Inputs, ps_props : BOOLEAN]

\* Calls that vary what the solver reads, the rest as calc_z(Pr=.., Tr=..) leaves it
SolverCall(a) ==
    /\ a.Pr # None /\ a.Tr # None
    /\ a.pmodel = "piper" /\ a.N2 = None /\ a.ps_props = FALSE

\* Calls that vary what the dispatcher reads, the solver's arguments left unset
DispatchCall(a) ==
    /\ a.zmodel = "DAK"
    /\ a.guess = None /\ a.newton_kwargs = "None" /\ a.smart_guess = "None"
    /\ a.Pr \in {None, 15} /\ a.Tr \in {None, 15}

\* The calls explored: every combination of the inputs above for the models that
\* do not iterate, and the two slices for the models that do.
Arguments ==
    {a \in AllArguments :
        a.zmodel \notin (models \ ExplicitModels) \/ SolverCall(a) \/ DispatchCall(a)}

NoArguments ==
    [zmodel |-> "None", pmodel |-> "None", guess |-> None, newton_kwargs |-> "None",
     smart_guess |-> "None", Pr |-> None, Tr |-> None, N2 |-> None, ps_props |-> FALSE]

(* External collaborators (their code is not part of value.py). *)

\* what <pmodel>._initialize_Tr_and_Pr may return as (Tr, Pr), in tenths
ReducedOutputs == {<<14, 31>>, <<14, 160>>}

\* pc_instance.ps_props after the reduction: the model's extras (named by the
\* model) and the Tr, Pr entries it recorded, if it recorded them
NoBag == [extras |-> "None", Tr |-> None, Pr |-> None]
BagsAfter(model, out) ==
    {[extras |-> model, Tr |-> out[1], Pr |-> out[2]],
     [extras |-> model, Tr |-> None, Pr |-> None]}

\* the values the explicit correlation kareem(Pr, Tr) may give, in hundredths
KareemValues == {86}

\* the roots optimize.newton may return when it does not raise, in hundredths
NewtonRoots == {86, 95}

\* what a call gives back: nothing yet, a float, a dict, or an exception
NoError == <<"None", "None", "None">>
NoReturn == [kind |-> "none", z |-> None, Tr |-> None, Pr |-> None, extras |-> "None", err |-> NoError]
Raise(type, msg, what) == [NoReturn EXCEPT !.kind = "raise", !.err = <<type, msg, what>>]

NoTrace == [lookup |-> 0, reduce |-> 0, kareem |-> 0, newton |-> 0]

RvIdle == [Pr |-> <<>>, Tr |-> <<>>, PrScalar |-> FALSE, TrScalar |-> FALSE,
           zmodel_str |-> "None", out |-> "None"]

InitCall ==
    /\ pc = "idle"
    /\ args = NoArguments
    /\ z_model = "None"
    /\ Pr = None /\ Tr = None
    /\ pc_instance = "None"
    /\ bag = NoBag
    /\ h_guess = None /\ h_smart = "None"
    /\ head = <<>> /\ tail = {}
    /\ nGuesses = 0 /\ idx = 0
    /\ worked = FALSE
    /\ Z = None
    /\ ret = NoReturn
    /\ newtonRet = None
    /\ trace = NoTrace
    /\ orch = <<None, None>>
    /\ reduced = <<None, None>>
    /\ accepted = None

helperVars == <<h_guess, h_smart, head, tail, nGuesses, idx, worked, newtonRet, accepted>>

----------------------------------------------------------------------------
(* calc_z *)

\* def calc_z(...): the call binds the arguments
Call ==
    /\ pc = "idle"
    /\ \E a \in Arguments :
        /\ args' = a
        /\ Pr' = a.Pr
        /\ Tr' = a.Tr
    /\ pc' = "validate"
    /\ UNCHANGED <<z_model, pc_instance, bag, helperVars, Z, ret, trace, orch, reduced, rv>>

\* Faulty variant: the smart_guess check of lines 265-266 left out
UnexpectedArgumentNoSmartGuess(zmodel, guess, newton_kwargs, smart_guess) ==
    IF zmodel \in ExplicitModels
    THEN IF guess # None THEN "guess"
         ELSE IF newton_kwargs # "None" THEN "newton_kwargs"
         ELSE "None"
    ELSE "None"

\* lines 260-266: the argument an explicit model rejects ("None": none)
UnexpectedArgument(zmodel, guess, newton_kwargs, smart_guess) ==
    IF zmodel \in ExplicitModels
    THEN IF guess # None THEN "guess"
         ELSE IF newton_kwargs # "None" THEN "newton_kwargs"
         ELSE IF smart_guess # "None" THEN "smart_guess"
         ELSE "None"
    ELSE "None"

ValidateExplicit ==
    /\ pc = "validate"
    /\ LET bad == UnexpectedArgument(args.zmodel, args.guess, args.newton_kwargs, args.smart_guess)
       IN  IF bad # "None"
           THEN /\ ret' = Raise("KeyError", "got an unexpected argument", bad)
                /\ pc' = "raised"
           ELSE /\ pc' = "lookup"
                /\ ret' = ret
    /\ UNCHANGED <<args, z_model, Pr, Tr, pc_instance, bag, helperVars, Z, trace, orch, reduced, rv>>

\* _get_z_model, as called at line 268
GetZModel ==
    /\ pc = "lookup"
    /\ trace' = [trace EXCEPT !.lookup = @ + 1]
    /\ IF args.zmodel \notin models
       THEN /\ ret' = Raise("KeyError", "Z-factor model is not implemented", args.zmodel)
            /\ pc' = "raised"
            /\ z_model' = z_model
       ELSE /\ z_model' = args.zmodel
            /\ pc' = "resolve"
            /\ ret' = ret
    /\ UNCHANGED <<args, Pr, Tr, pc_instance, bag, helperVars, Z, orch, reduced, rv>>

\* line 271
BothSupplied(p, t) == p # None /\ t # None

\* lines 271-272: Pr and Tr are already provided
UseSupplied ==
    /\ pc = "resolve"
    /\ BothSupplied(Pr, Tr)
    /\ pc' = "call_helper"
    /\ UNCHANGED <<args, z_model, Pr, Tr, pc_instance, bag, helperVars, Z, ret, trace, orch, reduced, rv>>

\* pc_instance = <Model>() and Tr, Pr = pc_instance._initialize_Tr_and_Pr(...),
\* lines 281-282 and 286-287: the routine returns a pair, which rebinds Tr and Pr,
\* or raises (inputs it cannot reduce), which ends the call
Reduce(model) ==
    /\ pc_instance' = model
    /\ trace' = [trace EXCEPT !.reduce = @ + 1]
    /\ \/ /\ \E out \in ReducedOutputs :
                /\ reduced' = out
                /\ Tr' = out[1]
                /\ Pr' = out[2]
                /\ bag' \in BagsAfter(model, out)
          /\ pc' = "call_helper"
          /\ ret' = ret
       \/ /\ ret' = Raise("Exception", "raised by the pseudo-critical model", model)
          /\ pc' = "raised"
          /\ UNCHANGED <<Tr, Pr, bag, reduced>>

\* lines 280-282
ReducePiper ==
    /\ pc = "resolve"
    /\ ~BothSupplied(Pr, Tr)
    /\ args.pmodel = "piper"
    /\ Reduce("Piper")
    /\ UNCHANGED <<args, z_model, helperVars, Z, orch, rv>>

\* Faulty variant: the N2 check of lines 284-285 left out
SuttonAcceptsN2(N2) == FALSE

\* line 284
SuttonRejects(N2) == N2 # None

\* lines 283-287
ReduceSutton ==
    /\ pc = "resolve"
    /\ ~BothSupplied(Pr, Tr)
    /\ args.pmodel = "sutton"
    /\ IF SuttonRejects(args.N2)
       THEN /\ ret' = Raise("KeyError", "pmodel sutton does not support N2 as input", "N2")
            /\ pc' = "raised"
            /\ UNCHANGED <<Pr, Tr, pc_instance, bag, trace, reduced>>
       ELSE Reduce("Sutton")
    /\ UNCHANGED <<args, z_model, helperVars, Z, orch, rv>>

\* lines 288-291
UnknownPModel ==
    /\ pc = "resolve"
    /\ ~BothSupplied(Pr, Tr)
    /\ args.pmodel \notin {"piper", "sutton"}
    /\ ret' = Raise("KeyError", "Pseudo-critical model is not implemented", args.pmodel)
    /\ pc' = "raised"
    /\ UNCHANGED <<args, z_model, Pr, Tr, pc_instance, bag, helperVars, Z, trace, orch, reduced, rv>>

\* Faulty variant: the helper is handed the caller's Pr, Tr instead of the resolved ones
HelperArgumentsFromCall(p, t, a) == <<a.Pr, a.Tr>>

\* the arguments (Pr, Tr) of the helper call at line 272 or 293
HelperArguments(p, t, a) == <<p, t>>

CallHelper ==
    /\ pc = "call_helper"
    /\ orch' = HelperArguments(Pr, Tr, args)
    /\ pc' = "helper"
    /\ UNCHANGED <<args, z_model, Pr, Tr, pc_instance, bag, helperVars, Z, ret, trace, reduced, rv>>

----------------------------------------------------------------------------
(* _calc_z_explicit_implicit_helper *)

\* lines 88-89 and 138: an explicit model is evaluated directly
HelperExplicit ==
    /\ pc = "helper"
    /\ args.zmodel \in ExplicitModels
    /\ \E z \in KareemValues : Z' = z
    /\ trace' = [trace EXCEPT !.kareem = @ + 1]
    /\ pc' = "package"
    /\ UNCHANGED <<args, z_model, Pr, Tr, pc_instance, bag, helperVars, ret, orch, reduced, rv>>

\* lines 94-101
DefaultGuess(guess, p) == IF guess = None THEN (IF p < 150 THEN 90 ELSE 200) ELSE guess

\* lines 102-103
DefaultSmartGuess(smart_guess) == IF smart_guess = "None" THEN "True" ELSE smart_guess

\* Faulty variant: the range check of line 109 left out
UsesSmartGuessUnchecked(smart_guess, p, t) == smart_guess = "True"

\* lines 107-109: the smart guess is computed
UsesSmartGuess(smart_guess, p, t) ==
    smart_guess = "True" /\ _check_working_Pr_Tr_range(<<p>>, <<t>>, smart_guess_model)

\* lines 112, 114, 117: what stands in guesses before _construct_guess_list_order(guess)
GuessesHead(smart_guess, inRange, k, g) ==
    IF smart_guess = "True"
    THEN IF inRange THEN <<k, g>> ELSE <<g>>
    ELSE <<>>

\* lines 94-117
BuildGuesses ==
    /\ pc = "helper"
    /\ args.zmodel \notin ExplicitModels
    /\ LET g == DefaultGuess(args.guess, Pr)
           s == DefaultSmartGuess(args.smart_guess)
           inRange == UsesSmartGuess(s, Pr, Tr)
       IN  /\ h_guess' = g
           /\ h_smart' = s
           /\ \E k \in KareemValues :
                head' = GuessesHead(s, inRange, k, g)
           /\ tail' = _construct_guess_list_order(g)
           /\ trace' = IF inRange
                       THEN [trace EXCEPT !.lookup = @ + 1, !.kareem = @ + 1]
                       ELSE trace
    /\ nGuesses' = Len(head') + Cardinality(tail')
    /\ worked' = FALSE
    /\ pc' = "loop"
    /\ UNCHANGED <<args, z_model, Pr, Tr, pc_instance, bag, idx, Z, ret, newtonRet, orch, reduced, accepted, rv>>

\* for guess_ in guesses: the candidates the next iteration may take.  Inside
\* the head the order is the list's; the elements of list(set(...)) follow in
\* the set's iteration order.
NextCandidates(hd, i, tl) == IF i < Len(hd) THEN {hd[i + 1]} ELSE tl

\* Faulty variant: the break of lines 132-133 left out
NeverBreaks(w) == FALSE

\* lines 132-133: if worked: break
BreaksOnSuccess(w) == w

\* Faulty variant: the raise of lines 135-136 left out
NeverRaisesAfterLoop(w) == FALSE

\* lines 135-136: if not worked: raise
RaisesAfterLoop(w) == ~w

\* lines 122, 125, 128: Z = optimize.newton(...), the value bound to Z.  The
\* three calls differ in the keyword arguments handed on (maxiter=50 unless
\* newton_kwargs sets it); what newton does with them is not modelled: each call
\* either raises or returns a root.
NewtonAssigns(root, candidate) == root

\* lines 119-133, one iteration; a break goes on to line 135 and returns Z (138)
Attempt ==
    /\ pc = "loop"
    /\ idx < nGuesses
    /\ \E c \in NextCandidates(head, idx, tail) :
        \E r \in NewtonRoots \cup {None} :
            /\ newtonRet' = r
            /\ worked' = (worked \/ r # None)
            /\ Z' = IF r # None THEN NewtonAssigns(r, c) ELSE Z
            /\ accepted' = IF r # None THEN c ELSE accepted
            /\ IF BreaksOnSuccess(worked')
               THEN /\ pc' = "package"
                    /\ head' = <<>>
                    /\ tail' = {}
               ELSE /\ pc' = "loop"
                    /\ head' = head
                    /\ tail' = IF idx < Len(head) THEN tail ELSE tail \ {c}
    /\ idx' = idx + 1
    /\ trace' = [trace EXCEPT !.newton = @ + 1]
    /\ UNCHANGED <<args, z_model, Pr, Tr, pc_instance, bag, h_guess, h_smart, nGuesses, ret, orch, reduced, rv>>

\* lines 135-138, reached when the for loop ran out of candidates
Exhausted ==
    /\ pc = "loop"
    /\ idx = nGuesses
    /\ IF RaisesAfterLoop(worked)
       THEN /\ ret' = Raise("RuntimeError", "Failed to converge", "None")
            /\ pc' = "raised"
       ELSE /\ pc' = "package"
            /\ ret' = ret
    /\ head' = <<>>
    /\ tail' = {}
    /\ UNCHANGED <<args, z_model, Pr, Tr, pc_instance, bag, h_guess, h_smart, nGuesses, idx,
                   worked, Z, newtonRet, trace, orch, reduced, accepted, rv>>

----------------------------------------------------------------------------
(* calc_z, after the helper returned *)

\* ps_props.update(pc_instance.ps_props): the bag's entries overwrite the dict's
DictUpdate(d, b) ==
    [d EXCEPT !.extras = b.extras,
              !.Tr = IF b.Tr # None THEN b.Tr ELSE @,
              !.Pr = IF b.Pr # None THEN b.Pr ELSE @]

\* Faulty variant: lines 298-299 left out, Tr and Pr taken from the bag alone
PropsDictFromBag(z, p, t, instance, b) ==
    LET d == [NoReturn EXCEPT !.kind = "dict", !.z = z]
    IN  IF instance = "None"
        THEN [d EXCEPT !.Pr = p, !.Tr = t]
        ELSE DictUpdate(d, b)

\* lines 274 and 296-299: the dict returned when ps_props is True
PropsDict(z, p, t, instance, b) ==
    LET d == [NoReturn EXCEPT !.kind = "dict", !.z = z]
    IN  IF instance = "None"
        THEN [d EXCEPT !.Pr = p, !.Tr = t]
        ELSE [DictUpdate(d, b) EXCEPT !.Tr = t, !.Pr = p]

\* lines 273-277 and 295-302
Package ==
    /\ pc = "package"
    /\ ret' = IF args.ps_props = TRUE
              THEN PropsDict(Z, Pr, Tr, pc_instance, bag)
              ELSE [NoReturn EXCEPT !.kind = "float", !.z = Z]
    /\ pc' = "returned"
    /\ UNCHANGED <<args, z_model, Pr, Tr, pc_instance, bag, helperVars, Z, trace, orch, reduced, rv>>

Init ==
    /\ InitCall
    /\ rv = RvIdle

Next ==
    \/ Call
    \/ ValidateExplicit
    \/ GetZModel
    \/ UseSupplied
    \/ ReducePiper
    \/ ReduceSutton
    \/ UnknownPModel
    \/ CallHelper
    \/ HelperExplicit
    \/ BuildGuesses
    \/ Attempt
    \/ Exhausted
    \/ Package

Spec == Init /\ [][Next]_vars

----------------------------------------------------------------------------
(* The range validator called on its own.  An argument is a scalar or an   *)
(* array of at most MaxLen elements; rv holds the elements and the shape.  *)

MaxLen == 2

PrValues == {1, 2, 15, 150, 151, 205, 300, 350}
TrValues == {9, 10, 15, 30, 31}

Arrays(V) == UNION {[1..k -> V] : k \in 0..MaxLen}
Scalars(V) == {<<v>> : v \in V}

CheckRange ==
    /\ rv.out = "None"
    /\ \E zmodel_str \in models, pScalar \in BOOLEAN, tScalar \in BOOLEAN :
        \E p \in IF pScalar THEN Scalars(PrValues) ELSE Arrays(PrValues),
           t \in IF tScalar THEN Scalars(TrValues) ELSE Arrays(TrValues) :
            rv' = [Pr |-> p, Tr |-> t, PrScalar |-> pScalar, TrScalar |-> tScalar,
                   zmodel_str |-> zmodel_str,
                   out |-> IF _check_working_Pr_Tr_range(p, t, zmodel_str)
                           THEN "True" ELSE "False"]
    /\ UNCHANGED callVars

NextRange == CheckRange

SpecRange == Init /\ [][NextRange]_vars

----------------------------------------------------------------------------
(* _calc_z_explicit_implicit_helper called on its own with an implicit     *)
(* model, over reduced properties on, just inside and outside the bounds   *)
(* of the smart-guess model and the Pr threshold of the default guess.     *)

HelperPrInputs == {1, 2, 149, 150, 151}
HelperTrInputs == {9, 10, 30, 31}
HelperZModelInputs == {"DAK"}

\* def _calc_z_explicit_implicit_helper(Pr, Tr, zmodel_func, zmodel_str, guess,
\* newton_kwargs, smart_guess): the call binds the arguments
HelperCall ==
    /\ pc = "idle"
    /\ \E zmodel_str \in HelperZModelInputs, p \in HelperPrInputs, t \in HelperTrInputs,
          guess \in GuessInputs, smart_guess \in SmartGuessInputs :
        /\ args' = [NoArguments EXCEPT !.zmodel = zmodel_str, !.guess = guess,
                                       !.smart_guess = smart_guess, !.Pr = p, !.Tr = t]
        /\ z_model' = zmodel_str
        /\ Pr' = p
        /\ Tr' = t
        /\ orch' = <<p, t>>
    /\ pc' = "helper"
    /\ UNCHANGED <<pc_instance, bag, helperVars, Z, ret, trace, reduced, rv>>

NextHelper ==
    \/ HelperCall
    \/ BuildGuesses
    \/ Attempt
    \/ Exhausted

SpecHelper == Init /\ [][NextHelper]_vars

----------------------------------------------------------------------------
(* Properties *)

BothGiven == args.Pr # None /\ args.Tr # None
SolverArgumentGiven ==
    args.guess # None \/ args.newton_kwargs # "None" \/ args.smart_guess # "None"
ImplicitCall == args.zmodel \in {"DAK", "hall_yarborough", "londono"}
HelperCalled ==
    \/ pc \in {"helper", "loop", "package", "returned"}
    \/ pc = "raised" /\ ret.err[1] = "RuntimeError"
NoReductionNoEvaluation ==
    trace.reduce = 0 /\ trace.kareem = 0 /\ trace.newton = 0 /\ Z = None
\* the spec's error kinds, told apart by the message of the exception raised
IsUnsupportedParameter(r) ==
    /\ r.kind = "raise" /\ r.err[1] = "KeyError"
    /\ r.err[2] \in {"got an unexpected argument", "pmodel sutton does not support N2 as input"}
IsUnknownPseudoCriticalModel(r) ==
    /\ r.kind = "raise" /\ r.err[1] = "KeyError"
    /\ r.err[2] = "Pseudo-critical model is not implemented"
IsConvergenceFailure(r) ==
    r.kind = "raise" /\ r.err[1] = "RuntimeError" /\ r.err[2] = "Failed to converge"

\* C1: a call with zmodel='kareem' and any of guess, newton_kwargs, smart_guess
\* supplied fails with the "unexpected argument" KeyError (UnsupportedParameter),
\* and until then nothing was computed: no Z-model lookup, no pseudo-critical
\* model, no correlation evaluation, whatever the other arguments are.
C1_ExplicitModelRejectsSolverArguments ==
    (args.zmodel = "kareem" /\ SolverArgumentGiven) =>
        /\ pc \in {"validate", "raised"}
        /\ trace = NoTrace
        /\ z_model = "None" /\ pc_instance = "None" /\ Z = None
        /\ orch = <<None, None>>
        /\ pc = "raised" =>
            /\ IsUnsupportedParameter(ret)
            /\ ret.err[2] = "got an unexpected argument"
            /\ ret.z = None

C1_Witness ==
    /\ pc = "raised"
    /\ args.zmodel = "kareem"
    /\ args.guess = None /\ args.newton_kwargs = "None" /\ args.smart_guess = "False"
    /\ ret.err[3] = "smart_guess"

\* what a step may do to the retry loop
C2_Step ==
    /\ pc = "loop" => ~worked /\ Z = None
    /\ pc # "loop" => idx' = idx
    /\ idx' # idx =>
        /\ idx' = idx + 1
        /\ trace'.newton = trace.newton + 1
        /\ IF pc' = "loop"
           THEN /\ newtonRet' = None /\ ~worked' /\ Z' = Z
                /\ head' = head
                /\ IF idx < Len(head)
                   THEN tail' = tail
                   ELSE tail' \subseteq tail /\ Cardinality(tail \ tail') = 1
           ELSE /\ pc' = "package"
                /\ worked' /\ newtonRet' # None /\ Z' = newtonRet'
                /\ IF idx < Len(head)
                   THEN accepted' = head[idx + 1]
                   ELSE accepted' \in tail

\* C2: in an implicit solve each loop iteration makes one root-finding attempt on
\* the next candidate of the guess sequence; an attempt that raises leaves worked
\* and Z as they were and the loop goes on to the next candidate; the first
\* attempt that does not raise ends the loop, its result is the Z returned, and no
\* attempt is made after it.
C2_FirstSuccessInSequenceOrder == [][C2_Step]_vars

C2_Witness ==
    /\ pc = "package"
    /\ ImplicitCall
    /\ idx = 4 /\ worked
    /\ accepted = 50 /\ Z = 95

\* C3: the retry loop makes at most one attempt per element of the guess
\* sequence, which is finite, and can always take its next step; the call ends
\* with RuntimeError("Failed to converge") (ConvergenceFailure) exactly when every
\* attempt failed, and then no Z, also no None, is returned.
C3_BoundedRetryThenConvergenceFailure ==
    /\ idx <= nGuesses
    /\ nGuesses <= Len(Ladder) + 3
    /\ pc = "loop" =>
        /\ nGuesses - idx = (IF idx < Len(head) THEN Len(head) - idx ELSE 0) + Cardinality(tail)
        /\ idx < nGuesses => NextCandidates(head, idx, tail) # {}
    /\ IsConvergenceFailure(ret) =>
        /\ pc = "raised"
        /\ idx = nGuesses /\ idx >= Len(Ladder)
        /\ ~worked /\ newtonRet = None
        /\ Z = None /\ ret.z = None
    /\ (ImplicitCall /\ pc \in {"package", "returned"}) =>
        /\ worked /\ newtonRet # None /\ Z # None
        /\ ~IsConvergenceFailure(ret)
    /\ (ImplicitCall /\ pc = "returned") => ret.z # None

C3_Witness ==
    /\ IsConvergenceFailure(ret)
    /\ idx = 13
    /\ args.guess = None /\ args.Pr = 150

\* the ladder is complete, and a candidate taken from it is no farther from the
\* guess than any candidate still to come
C4_Step ==
    /\ (pc = "loop" /\ idx = 0) => Range(Ladder) \subseteq tail
    /\ (pc = "loop" /\ pc' = "loop" /\ idx' = idx + 1 /\ idx >= Len(head)) =>
        \A c \in tail \ tail' : \A d \in tail' :
            Abs(c - h_guess) <= Abs(d - h_guess)

\* C4: the ladder _construct_guess_list_order(g) returns holds each of the ten
\* values 0.1 .. 1.0 exactly once and lists them by non-decreasing distance from
\* g: whenever the loop takes a candidate from it, no candidate still to come is
\* closer to g.
C4_LadderOrderedByDistance == [][C4_Step]_vars

\* C5: a pseudo-critical model is consulted only when Pr and Tr are not both
\* supplied.  Both supplied: no model is selected or invoked and the helper is
\* called with the supplied (Pr, Tr).  Otherwise: the reduction routine is
\* invoked exactly once, before the helper is called and before any correlation
\* is evaluated, and the helper is called with the (Tr, Pr) it returned.
C5_PseudoCriticalOnlyWhenNeeded ==
    /\ trace.reduce <= 1
    /\ ~HelperCalled => trace.kareem = 0 /\ trace.newton = 0 /\ orch = <<None, None>>
    /\ BothGiven =>
        /\ trace.reduce = 0 /\ pc_instance = "None" /\ reduced = <<None, None>>
        /\ HelperCalled => orch = <<args.Pr, args.Tr>>
    /\ (~BothGiven /\ HelperCalled) =>
        /\ trace.reduce = 1
        /\ pc_instance = (IF args.pmodel = "piper" THEN "Piper" ELSE "Sutton")
        /\ reduced \in ReducedOutputs
        /\ orch = <<reduced[2], reduced[1]>>

C5_Witness ==
    /\ pc = "returned"
    /\ args.Pr = 15 /\ args.Tr = None
    /\ trace.reduce = 1
    /\ orch = <<160, 14>>

\* C6 as stated: with Pr and Tr not both supplied, a call with pmodel='sutton' and
\* N2 supplied fails with UnsupportedParameter and a call with a pmodel other than
\* 'piper' and 'sutton' fails with UnknownPseudoCriticalModel, in both cases before
\* any reduction routine or correlation is invoked and without returning a Z.
C6_PModelErrorsAsStated ==
    (pc # "idle" /\ ~BothGiven) =>
        /\ (args.pmodel = "sutton" /\ args.N2 # None) =>
            /\ pc \in {"validate", "lookup", "resolve", "raised"}
            /\ NoReductionNoEvaluation
            /\ pc = "raised" => IsUnsupportedParameter(ret)
        /\ args.pmodel \notin {"piper", "sutton"} =>
            /\ pc \in {"validate", "lookup", "resolve", "raised"}
            /\ NoReductionNoEvaluation
            /\ pc = "raised" => IsUnknownPseudoCriticalModel(ret)

\* C6 as amended: the same, for the calls that pass the two checks calc_z makes
\* first (zmodel is a registered name, and an explicit zmodel comes with no guess,
\* newton_kwargs or smart_guess), the sutton error being the N2 one; a call that
\* fails one of those checks fails with that check's error, and in every case
\* before any reduction routine or correlation is invoked, no Z returned.
C6_PModelErrorsAfterZModelChecks ==
    (pc # "idle" /\ ~BothGiven) =>
        LET passes == /\ args.zmodel \in {"DAK", "hall_yarborough", "londono", "kareem"}
                      /\ ~(args.zmodel = "kareem" /\ SolverArgumentGiven)
        IN
        /\ (args.pmodel = "sutton" /\ args.N2 # None) =>
            /\ pc \in {"validate", "lookup", "resolve", "raised"}
            /\ NoReductionNoEvaluation /\ ret.z = None
            /\ (pc = "raised" /\ passes) =>
                /\ IsUnsupportedParameter(ret)
                /\ ret.err[2] = "pmodel sutton does not support N2 as input"
        /\ args.pmodel \notin {"piper", "sutton"} =>
            /\ pc \in {"validate", "lookup", "resolve", "raised"}
            /\ NoReductionNoEvaluation /\ ret.z = None
            /\ (pc = "raised" /\ passes) => IsUnknownPseudoCriticalModel(ret)
        /\ (pc = "raised" /\ ~passes) =>
            /\ ret.kind = "raise"
            /\ ret.err[2] \in {"got an unexpected argument", "Z-factor model is not implemented"}

C6_Witness ==
    /\ pc = "raised"
    /\ args.zmodel = "DAK" /\ args.pmodel = "sutton" /\ args.N2 = 5
    /\ args.Pr = 15 /\ args.Tr = None
    /\ ret.err[2] = "pmodel sutton does not support N2 as input"

\* C7: a call that returns with ps_props=True returns a dict whose 'z' is the Z
\* the helper returned, the value a call with ps_props not True returns bare, and
\* whose 'Pr' and 'Tr' are the reduced state the helper was called with: the
\* supplied Pr, Tr when both were given, else the pseudo-critical model's.
C7_PropsDictMatchesScalarAndReducedState ==
    pc = "returned" =>
        /\ ret.z = Z /\ Z # None
        /\ IF args.ps_props
           THEN /\ ret.kind = "dict"
                /\ ret.Pr = orch[1] /\ ret.Tr = orch[2]
                /\ BothGiven => ret.Pr = args.Pr /\ ret.Tr = args.Tr /\ ret.extras = "None"
                /\ ~BothGiven => ret.Tr = reduced[1] /\ ret.Pr = reduced[2]
                                 /\ ret.extras = pc_instance
           ELSE /\ ret.kind = "float"
                /\ ret.Pr = None /\ ret.Tr = None /\ ret.extras = "None"

C7_Witness ==
    /\ pc = "returned"
    /\ args.ps_props /\ ret.kind = "dict"
    /\ pc_instance = "Sutton" /\ bag.Tr = None
    /\ ret.z = 95 /\ ret.Tr = 14 /\ ret.Pr = 160

C9_GuessSequenceWithoutRepeats ==
    (pc = "loop" /\ idx = 0) =>
        /\ \A i, j \in DOMAIN head : i # j => head[i] # head[j]
        /\ Range(head) \cap tail = {}

\* the provided guess has been tried
C10_GuessTried ==
    \/ \E i \in 1..Len(head) : i <= idx /\ head[i] = h_guess
    \/ idx >= Len(head) /\ h_guess \notin tail
\* a candidate taken from the ladder is the guess, or the guess was tried before
C10_Step ==
    (pc = "loop" /\ pc' = "loop" /\ idx' = idx + 1 /\ idx >= Len(head)) =>
        \A c \in tail \ tail' : c # h_guess => C10_GuessTried

\* C10: with smart_guess enabled or disabled, no ladder value other than the
\* provided guess is tried while the provided guess is still untried.
C10_GuessBeforeLadder == [][C10_Step]_vars

\* C11: in an implicit solve kareem is evaluated, once, and its value stands first
\* in the guess sequence, followed by the provided guess, exactly when smart_guess
\* is on (True, or left None) and Pr is within [0.2, 15] and Tr within [1, 3],
\* bounds included; otherwise kareem is not evaluated and the sequence starts with
\* the provided guess (smart_guess on) or with the ladder (smart_guess off).  A
\* guess left None is 0.9 for Pr < 15 and 2 otherwise, whatever smart_guess is; a
\* guess that was given is kept.
C11_SmartGuessFirstAndDefaultGuess ==
    (ImplicitCall /\ pc \in {"loop", "package", "raised"}) =>
        LET smartOn == args.smart_guess \in {"None", "True"}
            inside  == /\ 2 <= orch[1] /\ orch[1] <= 150
                       /\ 10 <= orch[2] /\ orch[2] <= 30
        IN  /\ trace.kareem = (IF smartOn /\ inside THEN 1 ELSE 0)
            /\ h_guess = (IF args.guess # None THEN args.guess
                          ELSE IF orch[1] < 150 THEN 90 ELSE 200)
            /\ (pc = "loop" /\ idx = 0) =>
                /\ head = (IF smartOn /\ inside THEN <<86, h_guess>>
                           ELSE IF smartOn THEN <<h_guess>>
                           ELSE <<>>)
                /\ 86 \notin tail
                /\ nGuesses = Len(head) + Cardinality(tail)

C11_Witness ==
    /\ pc = "loop" /\ idx = 0
    /\ ImplicitCall
    /\ args.smart_guess = "None" /\ args.guess = None
    /\ orch = <<150, 30>>
    /\ trace.kareem = 1
    /\ head = <<86, 200>>

====
